---- MODULE Spec2Model ----
(***************************************************************************)
(* pga-tracker: score attribution and team ranking.                        *)
(*                                                                         *)
(* The model follows the latest iteration of the program (the one whose    *)
(* Player carries the Excluded flag and whose names go through splitName). *)
(* Go strings are modelled as sequences of one-character strings, so that  *)
(* splitting, trimming, upper-casing and number parsing are computed the   *)
(* way the library routines compute them.                                  *)
(***************************************************************************)
EXTENDS Integers, Sequences, FiniteSets, TLC

VARIABLES
    leaderboard,  \* contents of leaderboard.json as decoded into Leaderboard
    teamNames,    \* the roster handed to getTeamScores (Team.Players)
    pc,           \* position of the run
    status,       \* "running", "returned", "error", "panic", "fatal", "done"
    result,       \* []Player returned by the last getTeamScores call
    idx,          \* main: index of the member being processed (0-based)
    teams,        \* main: teams[i].PlayerScores collected so far
    docs          \* contents of docs/index.html

vars == <<leaderboard, teamNames, pc, status, result, idx, teams, docs>>

-----------------------------------------------------------------------------
(* Strings *)

Digits == <<"0", "1", "2", "3", "4", "5", "6", "7", "8", "9">>

IsDigit(c) == \E d \in 1..10 : Digits[d] = c

DigitVal(c) == (CHOOSE d \in 1..10 : Digits[d] = c) - 1

LowerLetters == <<"a","b","c","d","e","f","g","h","i","j","k","l","m",
                  "n","o","p","q","r","s","t","u","v","w","x","y","z">>

UpperLetters == <<"A","B","C","D","E","F","G","H","I","J","K","L","M",
                  "N","O","P","Q","R","S","T","U","V","W","X","Y","Z">>

\* unicode.ToUpper on one character of the alphabet used here
UpperChar(c) ==
    IF \E n \in 1..26 : LowerLetters[n] = c
    THEN UpperLetters[CHOOSE n \in 1..26 : LowerLetters[n] = c]
    ELSE c

\* strings.ToUpper
ToUpper(s) == [n \in 1..Len(s) |-> UpperChar(s[n])]

\* strings.TrimPrefix with a one-character prefix
TrimPrefix(s, c) == IF Len(s) > 0 /\ s[1] = c THEN Tail(s) ELSE s

\* position of the first space of s, 0 when there is none
IndexOfSpace(s) ==
    IF \E n \in 1..Len(s) : s[n] = " "
    THEN CHOOSE n \in 1..Len(s) : s[n] = " " /\ \A m \in 1..(n-1) : s[m] # " "
    ELSE 0

\* strings.SplitN(s, " ", 2)
SplitN2(s) ==
    LET n == IndexOfSpace(s)
    IN  IF n = 0 THEN <<s>>
        ELSE <<SubSeq(s, 1, n - 1), SubSeq(s, n + 1, Len(s))>>

\* value of a string of decimal digits
RECURSIVE DigitsValue(_)
DigitsValue(s) ==
    IF Len(s) = 0 THEN 0
    ELSE 10 * DigitsValue(SubSeq(s, 1, Len(s) - 1)) + DigitVal(s[Len(s)])

AllDigits(s) == Len(s) > 0 /\ \A n \in 1..Len(s) : IsDigit(s[n])

HasSign(s) == Len(s) > 0 /\ s[1] \in {"+", "-"}

Signed(s, v) == IF Len(s) > 0 /\ s[1] = "-" THEN 0 - v ELSE v

\* strconv.Atoi: an optional sign and then digits only; anything else is an
\* error, and the value returned with the error is 0
Atoi(s) ==
    LET body == IF HasSign(s) THEN Tail(s) ELSE s
    IN  IF AllDigits(body) THEN [ok |-> TRUE, val |-> Signed(s, DigitsValue(body))]
        ELSE [ok |-> FALSE, val |-> 0]

\* number of leading digits of s
RECURSIVE DigitPrefixLen(_)
DigitPrefixLen(s) ==
    IF Len(s) > 0 /\ IsDigit(s[1]) THEN 1 + DigitPrefixLen(Tail(s)) ELSE 0

\* fmt.Sscanf(s, "%d", &score) into a zero variable: an optional sign, then
\* the longest run of digits; with no digit the variable keeps its 0
SscanfInt(s) ==
    LET body == IF HasSign(s) THEN Tail(s) ELSE s
        n    == DigitPrefixLen(body)
    IN  IF n = 0 THEN 0 ELSE Signed(s, DigitsValue(SubSeq(body, 1, n)))

strokesInt(s) == Atoi(s).val

\* parseCutScore that keeps the minus sign
parseCutScoreSigned(cut) == SscanfInt(TrimPrefix(cut, "+"))

parseCutScore(cut) ==
    LET val == TrimPrefix(TrimPrefix(cut, "+"), "-")
    IN  SscanfInt(val)

-----------------------------------------------------------------------------
(* Program constants *)

\* squad size: the literal 4 of the exclusion loop and of team[:4]
K == 4

\* offset added to the parsed cut score
CutOffset == 3

MinWooLee == <<"M","i","n"," ","W","o","o"," ","L","e","e">>

TotalName == <<"T","o","t","a","l">>

CUT == <<"C","U","T">>

members == <<"Matt", "JR", "Pat", "Alex", "Chuck">>

\* the zero value of Team (the fields that take part in scoring)
ZeroTeam == [Players |-> <<>>, PlayerScores |-> <<>>]

\* docs/index.html as the previous run left it
PriorDocs == [state |-> "prior", Teams |-> <<>>]

\* the zero value of Player
ZeroPlayer ==
    [FullName |-> <<>>, R1 |-> 0, R2 |-> 0, R3 |-> 0, R4 |-> 0,
     Total |-> 0, Excluded |-> FALSE]

-----------------------------------------------------------------------------
(* getTeamScores and its helpers *)

\* splitName: the override, then the split on the first space.  A name with
\* no space is logged and then indexed at split[1], which is out of range.
splitName(name) ==
    IF name = MinWooLee
    THEN [panic |-> FALSE,
          firstName |-> <<"M","i","n"," ","W","o","o">>,
          lastName  |-> <<"L","e","e">>]
    ELSE LET split == SplitN2(name)
         IN  IF Len(split) # 2
             THEN [panic |-> TRUE, firstName |-> split[1], lastName |-> <<>>]
             ELSE [panic |-> FALSE, firstName |-> split[1], lastName |-> split[2]]

\* the scan over leaderboard.LeaderboardRows: index of the first row with
\* exactly this first and last name, 0 when found stays nil
findRow(rows, firstName, lastName) ==
    LET hits == {n \in 1..Len(rows) :
                    rows[n].FirstName = firstName /\ rows[n].LastName = lastName}
    IN  IF hits = {} THEN 0
        ELSE CHOOSE n \in hits : \A m \in hits : n <= m

isCut(found) == ToUpper(found.Position) = CUT

\* what round index i (0..3) of the loop leaves in the player's field
roundValue(found, i, cutVal) ==
    IF i < Len(found.Rounds) /\ ~isCut(found)
    THEN strokesInt(found.Rounds[i + 1].Strokes)
    ELSE IF isCut(found) /\ i >= 2 THEN cutVal
    ELSE 0

\* scorePlayer without the zero-rounds fallback
scorePlayerNoFallback(found, name, cutVal) ==
    LET r1 == roundValue(found, 0, cutVal)
        r2 == roundValue(found, 1, cutVal)
        r3 == roundValue(found, 2, cutVal)
        r4 == roundValue(found, 3, cutVal)
    IN  [FullName |-> name, R1 |-> r1, R2 |-> r2, R3 |-> r3, R4 |-> r4,
         Total |-> r1 + r2 + r3 + r4, Excluded |-> FALSE]

\* scorePlayer that totals the rounds before the fallback sets R1
scorePlayerEarlyTotal(found, name, cutVal) ==
    LET r1 == IF Len(found.Rounds) = 0 THEN strokesInt(found.Total)
              ELSE roundValue(found, 0, cutVal)
        r2 == roundValue(found, 1, cutVal)
        r3 == roundValue(found, 2, cutVal)
        r4 == roundValue(found, 3, cutVal)
    IN  [FullName |-> name, R1 |-> r1, R2 |-> r2, R3 |-> r3, R4 |-> r4,
         Total |-> roundValue(found, 0, cutVal) + r2 + r3 + r4,
         Excluded |-> FALSE]

\* the Player built for one matched row
scorePlayer(found, name, cutVal) ==
    LET r1 == IF Len(found.Rounds) = 0 THEN strokesInt(found.Total)
              ELSE roundValue(found, 0, cutVal)
        r2 == roundValue(found, 1, cutVal)
        r3 == roundValue(found, 2, cutVal)
        r4 == roundValue(found, 3, cutVal)
    IN  [FullName |-> name, R1 |-> r1, R2 |-> r2, R3 |-> r3, R4 |-> r4,
         Total |-> r1 + r2 + r3 + r4, Excluded |-> FALSE]

\* the penalty value computed once per call
cutValue(lb) ==
    IF Len(lb.CutLines) > 0
    THEN parseCutScore(lb.CutLines[1].CutScore) + CutOffset
    ELSE 0

\* buildTeam that scores a name without a row as a zero player
RECURSIVE buildTeamZeroMissing(_, _, _)
buildTeamZeroMissing(lb, names, team) ==
    IF Len(names) = 0 THEN [panic |-> FALSE, team |-> team]
    ELSE LET name == Head(names)
             sp   == splitName(name)
             n    == findRow(lb.LeaderboardRows, sp.firstName, sp.lastName)
         IN  IF sp.panic THEN [panic |-> TRUE, team |-> team]
             ELSE IF n = 0
             THEN buildTeamZeroMissing(lb, Tail(names),
                                       Append(team, [ZeroPlayer EXCEPT !.FullName = name]))
             ELSE buildTeamZeroMissing(lb, Tail(names),
                            Append(team, scorePlayer(lb.LeaderboardRows[n], name,
                                                     cutValue(lb))))

\* the loop over teamNames: the team in append order, or a panic in splitName
RECURSIVE buildTeam(_, _, _)
buildTeam(lb, names, team) ==
    IF Len(names) = 0 THEN [panic |-> FALSE, team |-> team]
    ELSE LET name == Head(names)
             sp   == splitName(name)
             n    == findRow(lb.LeaderboardRows, sp.firstName, sp.lastName)
         IN  IF sp.panic THEN [panic |-> TRUE, team |-> team]
             ELSE IF n = 0 THEN buildTeam(lb, Tail(names), team)
             ELSE buildTeam(lb, Tail(names),
                            Append(team, scorePlayer(lb.LeaderboardRows[n], name,
                                                     cutValue(lb))))

\* capacity of a slice grown from nil by n single appends (runtime growslice
\* below its 256-element threshold: the new length when it exceeds twice the
\* old capacity, else the double; for the 64-byte Player these sizes are
\* malloc size classes, so nothing is rounded up)
RECURSIVE capAfterAppends(_)
capAfterAppends(n) ==
    IF n = 0 THEN 0
    ELSE LET old == capAfterAppends(n - 1)
         IN  IF n <= old THEN old
             ELSE IF n > 2 * old THEN n
             ELSE 2 * old

\* one step of insertionSortLessFunc: p moves left past every element of
\* strictly greater Total
RECURSIVE insertByTotal(_, _)
insertByTotal(sorted, p) ==
    IF Len(sorted) > 0 /\ p.Total < sorted[Len(sorted)].Total
    THEN Append(insertByTotal(SubSeq(sorted, 1, Len(sorted) - 1), p),
                sorted[Len(sorted)])
    ELSE Append(sorted, p)

RECURSIVE insertionSort(_)
insertionSort(team) ==
    IF Len(team) = 0 THEN <<>>
    ELSE insertByTotal(insertionSort(SubSeq(team, 1, Len(team) - 1)), team[Len(team)])

\* the orderings of the elements with non-decreasing Total
RECURSIVE sortOrders(_, _)
sortOrders(team, left) ==
    IF left = {} THEN {<<>>}
    ELSE LET least == {n \in left : \A m \in left : team[n].Total <= team[m].Total}
         IN  UNION {{<<team[n]>> \o rest : rest \in sortOrders(team, left \ {n})}
                    : n \in least}

\* the team left in append order, as if the sort were missing
sortSliceAppendOrder(team) == {team}

\* sort.Slice with less = (Total <): slices of at most 12 elements are
\* sorted by insertion sort, which keeps equal Totals in append order; for
\* longer slices the order of equal Totals is not specified
sortSlice(team) ==
    IF Len(team) <= 12 THEN {insertionSort(team)}
    ELSE sortOrders(team, 1..Len(team))

\* markExcluded starting one element late
markExcludedLate(team) ==
    [n \in 1..Len(team) |->
        IF n > K + 1 THEN [team[n] EXCEPT !.Excluded = TRUE] ELSE team[n]]

\* the loop that sets Excluded from index K on
markExcluded(team) ==
    [n \in 1..Len(team) |->
        IF n > K THEN [team[n] EXCEPT !.Excluded = TRUE] ELSE team[n]]

\* summing the whole team instead of team[:K]
sliceWhole(team) == team

\* team[:K]: elements up to K of the backing array; past len they are zero
\* values; it panics when K exceeds the capacity
sliceToK(team) ==
    [n \in 1..K |-> IF n <= Len(team) THEN team[n] ELSE ZeroPlayer]

RECURSIVE sumField(_, _)
sumField(ps, f) ==
    IF Len(ps) = 0 THEN 0 ELSE ps[1][f] + sumField(Tail(ps), f)

\* the synthetic Total entry summed over the counting slice
totalPlayer(counting) ==
    [FullName |-> TotalName,
     R1 |-> sumField(counting, "R1"), R2 |-> sumField(counting, "R2"),
     R3 |-> sumField(counting, "R3"), R4 |-> sumField(counting, "R4"),
     Total |-> sumField(counting, "Total"), Excluded |-> FALSE]

\* everything after the sort, for one order the sort produced
finishTeam(sorted) ==
    LET team == markExcluded(sorted)
        cap  == capAfterAppends(Len(team))
    IN  IF K > cap THEN [status |-> "panic", team |-> <<>>]
        ELSE [status |-> "returned",
              team |-> Append(team, totalPlayer(sliceToK(team)))]

\* the outcomes of getTeamScores on a readable, parseable snapshot
getTeamScores(lb, names) ==
    LET built == buildTeam(lb, names, <<>>)
    IN  IF built.panic THEN {[status |-> "panic", team |-> <<>>]}
        ELSE {finishTeam(sorted) : sorted \in sortSlice(built.team)}

-----------------------------------------------------------------------------
(* Bounded inputs *)

\* longest roster drawn
MaxRoster == 6

nAB == <<"A"," ","B">>
nCD == <<"C"," ","D">>
nEF == <<"E"," ","F">>
nGH == <<"G"," ","H">>
nIJ == <<"I"," ","J">>
nXY == <<"X"," ","Y">>
nab == <<"a"," ","b">>
nTiger == <<"T","i","g","e","r">>

m1 == <<"-","1">>
p2 == <<"+","2">>
u1 == <<"1">>
ev == <<"E">>

Row(first, last, total, strokes, position) ==
    [FirstName |-> first, LastName |-> last, Total |-> total,
     Rounds |-> [n \in 1..Len(strokes) |-> [Strokes |-> strokes[n]]],
     Position |-> position]

RowsAB ==
    { Row(<<"A">>, <<"B">>, <<"-","4">>, <<m1, m1, m1, m1>>, <<"1">>),
      Row(<<"A">>, <<"B">>, <<"+","4">>, <<p2, p2>>, <<"C","U","T">>),
      Row(<<"A">>, <<"B">>, <<"-","2">>, <<>>, <<"c","u","t">>),
      Row(<<"A">>, <<"B">>, <<"-","2">>, <<>>, <<"T","5">>) }

RowsCD ==
    { Row(<<"C">>, <<"D">>, <<"-","1">>, <<ev, m1>>, <<"T","2">>),
      Row(<<"C">>, <<"D">>, <<"+","3">>, <<p2, u1>>, <<"C","u","t">>),
      Row(<<"C">>, <<"D">>, <<"E">>, <<>>, <<"T","9">>) }

RowsEF ==
    { Row(<<"E">>, <<"F">>, <<"+","2">>, <<m1, p2, m1, p2>>, <<"T","7">>),
      Row(<<"E">>, <<"F">>, <<"-","3">>, <<m1, m1, m1>>, <<"3">>) }

RowsGH ==
    { Row(<<"G">>, <<"H">>, <<"+","2">>, <<p2, m1, p2, m1>>, <<"T","7">>),
      Row(<<"G">>, <<"H">>, <<"+","1","2">>, <<<<"+","1","2">>>>, <<"9","0">>) }

RowIJ == Row(<<"I">>, <<"J">>, <<"+","8">>, <<p2, p2, p2, p2>>, <<"T","4","0">>)

RowMinWoo == Row(<<"M","i","n"," ","W","o","o">>, <<"L","e","e">>,
                 <<"-","1">>, <<m1, ev, ev, ev>>, <<"T","2">>)

\* the row the unsplit override would otherwise pick, and a later duplicate
RowMinNaive == Row(<<"M","i","n">>, <<"W","o","o"," ","L","e","e">>,
                   <<"+","9">>, <<<<"+","9">>>>, <<"8","0">>)

RowABAgain == Row(<<"A">>, <<"B">>, <<"+","7">>, <<<<"+","7">>>>, <<"7","0">>)

CutLinesPool ==
    { <<>>,
      <<[CutScore |-> <<"+","5">>], [CutScore |-> <<"-","2">>]>>,
      <<[CutScore |-> <<"-","2">>]>>,
      <<[CutScore |-> <<"E">>]>> }

Leaderboards ==
    { [CutLines |-> c,
       LeaderboardRows |-> <<ab, cd, ef, gh, RowIJ, RowMinNaive, RowMinWoo, RowABAgain>>]
      : c \in CutLinesPool, ab \in RowsAB, cd \in RowsCD, ef \in RowsEF, gh \in RowsGH }

BaseRoster == <<nAB, nXY, nCD, nEF, nTiger, nGH, MinWooLee, nab, nIJ>>

RECURSIVE pick(_, _)
pick(s, keep) ==
    IF Len(s) = 0 THEN <<>>
    ELSE IF Len(s) \in keep THEN Append(pick(SubSeq(s, 1, Len(s) - 1), keep), s[Len(s)])
    ELSE pick(SubSeq(s, 1, Len(s) - 1), keep)

\* the rosters: the subsequences of BaseRoster of at most MaxRoster names
Rosters ==
    { pick(BaseRoster, keep) :
        keep \in {k \in SUBSET (1..Len(BaseRoster)) : Cardinality(k) <= MaxRoster} }

-----------------------------------------------------------------------------
(* One call of getTeamScores *)

Init ==
    /\ leaderboard \in Leaderboards
    /\ teamNames \in Rosters
    /\ pc = "call"
    /\ status = "running"
    /\ result = <<>>
    /\ idx = 0
    /\ teams = <<>>
    /\ docs = PriorDocs

\* leaderboard.json cannot be opened or decoded: the error is returned
CallSnapshotError ==
    /\ pc = "call"
    /\ pc' = "done"
    /\ status' = "error"
    /\ UNCHANGED <<leaderboard, teamNames, result, idx, teams, docs>>

\* the call on a decoded snapshot
CallScoreTeam ==
    /\ pc = "call"
    /\ \E out \in getTeamScores(leaderboard, teamNames) :
          /\ status' = out.status
          /\ result' = out.team
    /\ pc' = "done"
    /\ UNCHANGED <<leaderboard, teamNames, idx, teams, docs>>

Next == CallSnapshotError \/ CallScoreTeam

Spec == Init /\ [][Next]_vars

-----------------------------------------------------------------------------
(* Vocabulary of the properties *)

Returned == pc = "done" /\ status = "returned"

\* the entries of a result before its trailing Total entry
PlayersOf(team) == SubSeq(team, 1, Len(team) - 1)

TotalOf(team) == team[Len(team)]

HasSpace(name) == \E n \in 1..Len(name) : name[n] = " "

\* the leaderboard row a scored roster name was matched to
RowFor(name) ==
    LET sp == splitName(name)
    IN  leaderboard.LeaderboardRows[
            findRow(leaderboard.LeaderboardRows, sp.firstName, sp.lastName)]

\* whether a roster name resolves to a leaderboard row
Matches(name) ==
    /\ HasSpace(name)
    /\ LET sp == splitName(name)
       IN  findRow(leaderboard.LeaderboardRows, sp.firstName, sp.lastName) # 0

\* the spellings of "CUT" in any letter case
CutSpellings ==
    {<<a, b, c>> : a \in {"C", "c"}, b \in {"U", "u"}, c \in {"T", "t"}}

Abs(v) == IF v < 0 THEN 0 - v ELSE v

\* the penalty the snapshot defines: |first cut score| + 3, or 0 without
\* cut lines
Penalty ==
    IF Len(leaderboard.CutLines) = 0 THEN 0
    ELSE Abs(Atoi(leaderboard.CutLines[1].CutScore).val) + 3

\* round n of a row as an integer, 0 when it is not recorded
Recorded(row, n) ==
    IF n <= Len(row.Rounds) THEN Atoi(row.Rounds[n].Strokes).val ELSE 0

\* positions (in result order) of the entries with Excluded = false
Counting(ps) == {n \in 1..Len(ps) : ~ps[n].Excluded}

RECURSIVE SumOver(_, _, _)
SumOver(ps, which, f) ==
    IF which = {} THEN 0
    ELSE LET n == CHOOSE m \in which : TRUE
         IN  ps[n][f] + SumOver(ps, which \ {n}, f)

\* the roster's scored names in roster order
RECURSIVE ScoredNames(_)
ScoredNames(names) ==
    IF Len(names) = 0 THEN <<>>
    ELSE IF Matches(Head(names)) THEN <<Head(names)>> \o ScoredNames(Tail(names))
    ELSE ScoredNames(Tail(names))

\* position of a name in the roster
RosterPos(name) == CHOOSE n \in 1..Len(teamNames) : teamNames[n] = name

\* p comes before q when the totals are sorted with ties in roster order
StableBefore(p, q) ==
    \/ p.Total < q.Total
    \/ p.Total = q.Total /\ RosterPos(p.FullName) < RosterPos(q.FullName)

-----------------------------------------------------------------------------
(* Properties of one call *)

C2_TotalOverCounting ==
    Returned =>
        LET ps == PlayersOf(result)
        IN  \A f \in {"R1", "R2", "R3", "R4", "Total"} :
               TotalOf(result)[f] = SumOver(ps, Counting(ps), f)

\* a result whose excluded player has a non-zero total
C2_Witness ==
    /\ Returned
    /\ \E n \in 1..(Len(result) - 1) : result[n].Excluded /\ result[n].Total # 0
    /\ TotalOf(result).Total # 0

\* C3 as stated: a matched entry whose position is "CUT" in any letter case
\* and that has 2 recorded rounds is scored with R1 and R2 equal to the
\* parsed first and second recorded rounds.
C3_CutKeepsRecordedRounds ==
    Returned =>
        \A n \in 1..(Len(result) - 1) :
            LET row == RowFor(result[n].FullName)
            IN  (row.Position \in CutSpellings /\ Len(row.Rounds) = 2) =>
                    /\ result[n].R1 = Recorded(row, 1)
                    /\ result[n].R2 = Recorded(row, 2)

C5_ReturnsWithFewMatches ==
    (pc = "done" /\ status # "error" /\ \A n \in 1..Len(teamNames) : HasSpace(teamNames[n])) =>
        /\ status = "returned"
        /\ Len(result) = Len(ScoredNames(teamNames)) + 1
        /\ TotalOf(result).FullName = TotalName

\* C6 as stated: a roster name without a space yields no player, the other
\* names are still scored and the call returns (here with at least K other
\* names matched).
C6_NoSpaceNameSkipped ==
    (/\ pc = "done" /\ status # "error"
     /\ \E n \in 1..Len(teamNames) : ~HasSpace(teamNames[n])
     /\ Len(ScoredNames(teamNames)) >= K) =>
        /\ status = "returned"
        /\ Len(result) = Len(ScoredNames(teamNames)) + 1
        /\ \A n \in 1..(Len(result) - 1) : HasSpace(result[n].FullName)

\* C7 as stated: a matched entry with zero recorded rounds, whatever its
\* position, has R1 = the parsed total field, R2 = R3 = R4 = 0 and
\* Total = R1.
C7_ZeroRoundsAllZero ==
    Returned =>
        \A n \in 1..(Len(result) - 1) :
            LET row == RowFor(result[n].FullName)
            IN  Len(row.Rounds) = 0 =>
                    /\ result[n].R1 = Atoi(row.Total).val
                    /\ result[n].R2 = 0 /\ result[n].R3 = 0 /\ result[n].R4 = 0
                    /\ result[n].Total = result[n].R1

\* C7 amended: a matched entry with zero recorded rounds has R1 = the parsed
\* total field and R2 = 0; R3 = R4 = 0 unless its position is "CUT", where
\* R3 = R4 = the penalty; Total = R1 + R3 + R4.
C7_ZeroRoundsFallback ==
    Returned =>
        \A n \in 1..(Len(result) - 1) :
            LET row == RowFor(result[n].FullName)
                pen == IF row.Position \in CutSpellings THEN Penalty ELSE 0
            IN  Len(row.Rounds) = 0 =>
                    /\ result[n].R1 = Atoi(row.Total).val
                    /\ result[n].R2 = 0
                    /\ result[n].R3 = pen /\ result[n].R4 = pen
                    /\ result[n].Total = result[n].R1 + 2 * pen

\* a player with no recorded round and total "-2", scored R1 = -2
C7_Witness ==
    /\ Returned
    /\ \E n \in 1..(Len(result) - 1) :
          LET row == RowFor(result[n].FullName)
          IN  /\ Len(row.Rounds) = 0
              /\ row.Total = <<"-", "2">>
              /\ result[n].R1 = 0 - 2

\* C9: every entry of a result, the Total entry included, has
\* Total = R1 + R2 + R3 + R4.
C9_TotalIsSumOfRounds ==
    Returned =>
        \A n \in 1..Len(result) :
            result[n].Total = result[n].R1 + result[n].R2 + result[n].R3 + result[n].R4

\* a result with a zero-round player of non-zero total and a non-zero team
\* total
C9_Witness ==
    /\ Returned
    /\ TotalOf(result).Total # 0
    /\ \E n \in 1..(Len(result) - 1) :
          Len(RowFor(result[n].FullName).Rounds) = 0 /\ result[n].Total # 0

\* the roster without a name
RECURSIVE Without(_, _)
Without(names, name) ==
    IF Len(names) = 0 THEN <<>>
    ELSE IF Head(names) = name THEN Without(Tail(names), name)
    ELSE <<Head(names)>> \o Without(Tail(names), name)

\* the scoring fields of an entry
Scores(p) == <<p.FullName, p.R1, p.R2, p.R3, p.R4, p.Total>>

\* C10: a roster name that splits but matches no row exactly yields no
\* entry in the result, and every other player's R1..R4 and Total are those
\* of a call on the roster without that name.
C10_MissingNameOmitted ==
    Returned =>
        \A k \in 1..Len(teamNames) :
            (HasSpace(teamNames[k]) /\ ~Matches(teamNames[k])) =>
                /\ \A n \in 1..Len(result) : result[n].FullName # teamNames[k]
                /\ \E out \in getTeamScores(leaderboard, Without(teamNames, teamNames[k])) :
                      /\ out.status = "returned"
                      /\ Len(out.team) = Len(result)
                      /\ {Scores(out.team[n]) : n \in 1..Len(out.team)}
                             = {Scores(result[n]) : n \in 1..Len(result)}

\* a result for a roster holding an absent name and a name that differs
\* from a row only in letter case
C10_Witness ==
    /\ Returned
    /\ \E k \in 1..Len(teamNames) : teamNames[k] = nXY
    /\ \E k \in 1..Len(teamNames) : teamNames[k] = nab
    /\ \E n \in 1..(Len(result) - 1) : result[n].FullName = nAB

-----------------------------------------------------------------------------
(* main: one run over the configured members *)

MainLeaderboards ==
    { [CutLines |-> c,
       LeaderboardRows |-> <<ab, cd, ef, gh, RowIJ, RowMinNaive, RowMinWoo, RowABAgain>>]
      : c \in {<<[CutScore |-> <<"+","5">>], [CutScore |-> <<"-","2">>]>>},
        ab \in {Row(<<"A">>, <<"B">>, <<"+","4">>, <<p2, p2>>, <<"C","U","T">>)},
        cd \in {Row(<<"C">>, <<"D">>, <<"-","1">>, <<ev, m1>>, <<"T","2">>)},
        ef \in RowsEF,
        gh \in {Row(<<"G">>, <<"H">>, <<"+","2">>, <<p2, m1, p2, m1>>, <<"T","7">>)} }

MainRosters ==
    { <<nAB, nCD, nEF, nGH, nIJ>>,
      <<nXY, nGH, nEF, MinWooLee>>,
      <<nAB, nTiger, nCD, nEF, nGH>>,
      <<nCD, nXY>> }

MainInit ==
    /\ leaderboard \in MainLeaderboards
    /\ teamNames = <<>>
    /\ pc = "start"
    /\ status = "running"
    /\ result = <<>>
    /\ idx = 0
    /\ teams = [n \in 1..Len(members) |-> ZeroTeam]
    /\ docs = PriorDocs

\* -refresh not given
NoRefresh ==
    /\ pc = "start"
    /\ pc' = "load"
    /\ UNCHANGED <<leaderboard, teamNames, status, result, idx, teams, docs>>

\* fetchLeaderboard stores a new snapshot in leaderboard.json
FetchOk ==
    /\ pc = "start"
    /\ leaderboard' \in MainLeaderboards
    /\ pc' = "load"
    /\ UNCHANGED <<teamNames, status, result, idx, teams, docs>>

\* fetchLeaderboard fails: log.Fatalf
FetchFail ==
    /\ pc = "start"
    /\ pc' = "exit"
    /\ status' = "fatal: fetch"
    /\ UNCHANGED <<leaderboard, teamNames, result, idx, teams, docs>>

\* loadTeam that reports the failure and goes on to the next member
LoadTeamFailGoesOn ==
    /\ pc = "load" /\ idx < Len(members)
    /\ idx' = idx + 1
    /\ UNCHANGED <<leaderboard, teamNames, pc, status, result, teams, docs>>

\* loadTeam fails for members[idx]: log.Fatal
LoadTeamFail ==
    /\ pc = "load" /\ idx < Len(members)
    /\ pc' = "exit"
    /\ status' = "fatal: roster"
    /\ UNCHANGED <<leaderboard, teamNames, result, idx, teams, docs>>

\* loadTeam decodes teams/<member>.json
LoadTeamOk ==
    /\ pc = "load" /\ idx < Len(members)
    /\ teamNames' \in MainRosters
    /\ pc' = "score"
    /\ UNCHANGED <<leaderboard, status, result, idx, teams, docs>>

\* getTeamScores returns an error (snapshot unreadable): log.Fatal
ScoreError ==
    /\ pc = "score"
    /\ pc' = "exit"
    /\ status' = "fatal: snapshot"
    /\ UNCHANGED <<leaderboard, teamNames, result, idx, teams, docs>>

\* getTeamScores panics: the run dies with the panic
ScorePanic ==
    /\ pc = "score"
    /\ \E out \in getTeamScores(leaderboard, teamNames) : out.status = "panic"
    /\ pc' = "exit"
    /\ status' = "panic"
    /\ UNCHANGED <<leaderboard, teamNames, result, idx, teams, docs>>

\* getTeamScores returns: teams[i] = teamData with its PlayerScores
ScoreReturn ==
    /\ pc = "score"
    /\ \E out \in getTeamScores(leaderboard, teamNames) :
          /\ out.status = "returned"
          /\ result' = out.team
          /\ teams' = [teams EXCEPT ![idx + 1] =
                          [Players |-> teamNames, PlayerScores |-> out.team]]
    /\ idx' = idx + 1
    /\ pc' = "load"
    /\ UNCHANGED <<leaderboard, teamNames, status, docs>>

\* the loop is over: renderScoreboard is called
RenderCall ==
    /\ pc = "load" /\ idx = Len(members)
    /\ pc' = "render"
    /\ UNCHANGED <<leaderboard, teamNames, status, result, idx, teams, docs>>

\* template.Must panics on templates/scoreboard.html
RenderTemplatePanic ==
    /\ pc = "render"
    /\ pc' = "exit"
    /\ status' = "panic"
    /\ UNCHANGED <<leaderboard, teamNames, result, idx, teams, docs>>

\* os.Create("docs/index.html") fails: the error reaches log.Fatalf
RenderCreateFail ==
    /\ pc = "render"
    /\ pc' = "exit"
    /\ status' = "fatal: render"
    /\ UNCHANGED <<leaderboard, teamNames, result, idx, teams, docs>>

\* the file is truncated and tmpl.Execute fails part way
RenderExecuteFail ==
    /\ pc = "render"
    /\ docs' = [state |-> "partial", Teams |-> <<>>]
    /\ pc' = "exit"
    /\ status' = "fatal: render"
    /\ UNCHANGED <<leaderboard, teamNames, result, idx, teams>>

\* the page is written from teams
RenderOk ==
    /\ pc = "render"
    /\ docs' = [state |-> "rendered", Teams |-> teams]
    /\ pc' = "exit"
    /\ status' = "done"
    /\ UNCHANGED <<leaderboard, teamNames, result, idx, teams>>

MainNext ==
    \/ NoRefresh \/ FetchOk \/ FetchFail
    \/ LoadTeamFail \/ LoadTeamOk
    \/ ScoreError \/ ScorePanic \/ ScoreReturn
    \/ RenderCall
    \/ RenderTemplatePanic \/ RenderCreateFail \/ RenderExecuteFail \/ RenderOk

MainSpec == MainInit /\ [][MainNext]_vars

\* every configured member has been loaded and scored
AllTeamsScored ==
    /\ idx = Len(members)
    /\ \A n \in 1..Len(members) :
          /\ teams[n].Players \in MainRosters
          /\ Len(teams[n].PlayerScores) > 0

\* C8: a failure to load a roster or the snapshot ends the run with
\* docs/index.html as it was, and renderScoreboard is entered, and the file
\* changed, only after every configured member was loaded and scored.
C8_RenderOnlyAfterAllTeams ==
    /\ status \in {"fatal: roster", "fatal: snapshot"} => docs = PriorDocs
    /\ (pc = "render" \/ docs # PriorDocs) => AllTeamsScored

\* the snapshot fails for a later member after earlier ones were scored
C8_Witness ==
    /\ status = "fatal: snapshot"
    /\ idx >= 2
    /\ Len(teams[1].PlayerScores) > 0
    /\ docs = PriorDocs

-----------------------------------------------------------------------------
(* Order of a result *)

\* C11: in every result the player entries are in non-decreasing order of
\* Total, every player with Excluded = false comes before every excluded
\* one, and the "Total" entry is the last element and the only one of that
\* name.
C11_SortedCountingFirstTotalLast ==
    Returned =>
        LET ps == PlayersOf(result)
        IN  /\ \A n \in 1..Len(ps) : \A m \in 1..Len(ps) :
                   n < m => ps[n].Total <= ps[m].Total
            /\ \A n \in 1..Len(ps) : \A m \in 1..Len(ps) :
                   (~ps[n].Excluded /\ ps[m].Excluded) => n < m
            /\ Len(result) >= 1
            /\ TotalOf(result).FullName = TotalName
            /\ \A n \in 1..Len(ps) : ps[n].FullName # TotalName

\* a result with excluded players whose order differs from the roster's:
\* the sort moved a later roster name ahead of an earlier one
C11_Witness ==
    /\ Returned
    /\ Len(result) - 1 > K
    /\ result[Len(result) - 1].Excluded
    /\ \E n \in 1..(Len(result) - 1) : \E m \in 1..(Len(result) - 1) :
          /\ n < m
          /\ result[n].Total < result[m].Total
          /\ RosterPos(result[n].FullName) > RosterPos(result[m].FullName)

====
